---- MODULE Spec2Model ----
(***************************************************************************)
(* niceshare.py: a front-end that turns command-line options into a        *)
(* gst-launch pipeline wrapped in a nix-shell invocation.                   *)
(*                                                                         *)
(* Python strings are modelled as sequences of one-character strings, so   *)
(* that formatting, parsing, joining and quoting are computed character by *)
(* character.  Python's None is the one-element sequence <<"None">>, which *)
(* is no Python string because its element is not a single character.      *)
(***************************************************************************)
EXTENDS Integers, Sequences, FiniteSets, TLC

VARIABLES
  pc,                \* the step of the run that comes next
  cmdline,           \* the options given on the command line
  display,           \* the windowing system of the host
  screen_sizes,      \* list_screen_sizes()
  all_screens_size,  \* get_all_screens_size()
  args,              \* the namespace of parse_args()
  uri,               \* main's local uri
  rect,              \* main's locals (width, height, startx, starty)
  gst_launch_args,   \* main's local gst_launch_args
  command,           \* main's local command
  stdout,            \* the texts printed, in order
  children,          \* the child processes run, in order
  error,             \* the exception that ended the run, or "none"
  exit_status,       \* the exit status of the process, -1 while it runs
  p_pc, p_rect, p_text, p_result  \* the parser on its own (SpecParse)

mvars == <<pc, cmdline, display, screen_sizes, all_screens_size, args, uri,
           rect, gst_launch_args, command, stdout, children, error,
           exit_status>>

pvars == <<p_pc, p_rect, p_text, p_result>>

vars == <<mvars, pvars>>

None == <<"None">>

\* A local variable that has not been assigned.
Unbound == <<"Unbound">>

(***************************************************************************)
(* Bounds of the model.                                                    *)
(***************************************************************************)
\* Widths, heights and offsets of the rectangles that are formatted and
\* parsed range over 0..MaxCoord (two-digit numbers included).
MaxCoord == 10

\* At most MaxDisplays displays are attached.
MaxDisplays == 2

(***************************************************************************)
(* Defaults of the numeric options.                                        *)
(***************************************************************************)
DefaultBitrate == 2048

DefaultLatency == 1000

DefaultFps == 30

(***************************************************************************)
(* Python primitives: str(int) as used by f-strings, int(str), str.join.   *)
(***************************************************************************)
DigitChars == <<"0", "1", "2", "3", "4", "5", "6", "7", "8", "9">>

IsDigit(c) == \E d \in 1..10 : DigitChars[d] = c

DigitVal(c) == (CHOOSE d \in 1..10 : DigitChars[d] = c) - 1

RECURSIVE StrNat(_)
StrNat(n) ==
  IF n < 10 THEN <<DigitChars[n + 1]>>
  ELSE StrNat(n \div 10) \o <<DigitChars[(n % 10) + 1]>>

\* f'{n}' for a Python int n.
Str(n) == IF n < 0 THEN <<"-">> \o StrNat(0 - n) ELSE StrNat(n)

\* int(d) for a string of decimal digits (leading zeros allowed).
RECURSIVE ParseInt(_)
ParseInt(d) ==
  IF d = <<>> THEN 0
  ELSE 10 * ParseInt(SubSeq(d, 1, Len(d) - 1)) + DigitVal(d[Len(d)])

(***************************************************************************)
(* list_screen_sizes: the geometry string of one display.                  *)
(***************************************************************************)
\* f'{g.Width}x{g.Height}+{g.X},{g.Y}' for g = <<Width, Height, X, Y>>.
ScreenString(g) ==
  Str(g[1]) \o <<"x">> \o Str(g[2]) \o <<"+">> \o Str(g[3]) \o <<",">> \o Str(g[4])

(***************************************************************************)
(* parse_screenshare_argument.                                             *)
(***************************************************************************)
\* The index after the longest run of digits of s that starts at index i
\* (a greedy \d+ ; i itself when s[i] is no digit).
RECURSIVE DigitRun(_, _)
DigitRun(s, i) ==
  IF i <= Len(s) /\ IsDigit(s[i]) THEN DigitRun(s, i + 1) ELSE i

\* re.match(r'(\d+)x(\d+)\+(\d+),(\d+)', s): the four groups, or None.
\* re.match anchors the pattern at the start of s only.
RegexMatch(s) ==
  LET e1 == DigitRun(s, 1)
      e2 == DigitRun(s, e1 + 1)
      e3 == DigitRun(s, e2 + 1)
      e4 == DigitRun(s, e3 + 1)
  IN  IF /\ e1 > 1      /\ e1 <= Len(s) /\ s[e1] = "x"
         /\ e2 > e1 + 1 /\ e2 <= Len(s) /\ s[e2] = "+"
         /\ e3 > e2 + 1 /\ e3 <= Len(s) /\ s[e3] = ","
         /\ e4 > e3 + 1
      THEN <<SubSeq(s, 1, e1 - 1), SubSeq(s, e1 + 1, e2 - 1),
             SubSeq(s, e2 + 1, e3 - 1), SubSeq(s, e3 + 1, e4 - 1)>>
      ELSE None

\* A parser that returns the offsets in the wrong order.
parse_swapped(screenshare_arg) ==
  LET m == RegexMatch(screenshare_arg)
  IN  IF m = None THEN None
      ELSE <<ParseInt(m[1]), ParseInt(m[2]), ParseInt(m[4]), ParseInt(m[3])>>

\* Returns <<w, h, x, y>> on success, None on failure.
parse_screenshare_argument(screenshare_arg) ==
  LET m == RegexMatch(screenshare_arg)
  IN  IF m = None THEN None
      ELSE <<ParseInt(m[1]), ParseInt(m[2]), ParseInt(m[3]), ParseInt(m[4])>>

(***************************************************************************)
(* The string literals of the program.                                     *)
(***************************************************************************)
\* 'gst-launch-1.0'
GstLaunch ==
  <<"g","s","t","-","l","a","u","n","c","h","-","1",".","0">>

\* 'ximagesrc startx='
XimagesrcStartx ==
  <<"x","i","m","a","g","e","s","r","c"," ","s","t","a","r","t","x","=">>

\* ' endx='
XimagesrcEndx ==
  <<" ","e","n","d","x","=">>

\* ' starty='
XimagesrcStarty ==
  <<" ","s","t","a","r","t","y","=">>

\* ' endy='
XimagesrcEndy ==
  <<" ","e","n","d","y","=">>

\* ' show-pointer=true use-damage=0'
XimagesrcTail ==
  <<" ","s","h","o","w","-","p","o","i","n","t","e","r","=","t","r","u","e",
    " ","u","s","e","-","d","a","m","a","g","e","=","0">>

\* '! queue'
StageQueue ==
  <<"!"," ","q","u","e","u","e">>

\* '! videoconvert'
StageVideoconvert ==
  <<"!"," ","v","i","d","e","o","c","o","n","v","e","r","t">>

\* '! clockoverlay'
StageClockoverlay ==
  <<"!"," ","c","l","o","c","k","o","v","e","r","l","a","y">>

\* '! x264enc tune=zerolatency speed-preset=fast bitrate='
X264encBitrate ==
  <<"!"," ","x","2","6","4","e","n","c"," ","t","u","n","e","=","z","e","r",
    "o","l","a","t","e","n","c","y"," ","s","p","e","e","d","-","p","r","e",
    "s","e","t","=","f","a","s","t"," ","b","i","t","r","a","t","e","=">>

\* ' threads=1 byte-stream=true key-int-max=60 intra-refresh=true'
X264encTail ==
  <<" ","t","h","r","e","a","d","s","=","1"," ","b","y","t","e","-","s","t",
    "r","e","a","m","=","t","r","u","e"," ","k","e","y","-","i","n","t","-",
    "m","a","x","=","6","0"," ","i","n","t","r","a","-","r","e","f","r","e",
    "s","h","=","t","r","u","e">>

\* '! video/x-h264, profile=baseline, framerate='
CapsFramerate ==
  <<"!"," ","v","i","d","e","o","/","x","-","h","2","6","4",","," ","p","r",
    "o","f","i","l","e","=","b","a","s","e","l","i","n","e",","," ","f","r",
    "a","m","e","r","a","t","e","=">>

\* '/1'
CapsTail ==
  <<"/","1">>

\* '! mpegtsmux'
StageMpegtsmux ==
  <<"!"," ","m","p","e","g","t","s","m","u","x">>

\* '! srtsink uri='
SrtsinkUri ==
  <<"!"," ","s","r","t","s","i","n","k"," ","u","r","i","=">>

\* ' latency='
SrtsinkLatency ==
  <<" ","l","a","t","e","n","c","y","=">>

\* 'packetfilter=fec,cols:3,rows:-3,layout:staircase,arq:always'
SinkPacketfilter ==
  <<"p","a","c","k","e","t","f","i","l","t","e","r","=","f","e","c",",","c",
    "o","l","s",":","3",",","r","o","w","s",":","-","3",",","l","a","y","o",
    "u","t",":","s","t","a","i","r","c","a","s","e",",","a","r","q",":","a",
    "l","w","a","y","s">>

\* 'passphrase='
PassphraseKey ==
  <<"p","a","s","s","p","h","r","a","s","e","=">>

\* 'srtsrc uri='
SrtsrcUri ==
  <<"s","r","t","s","r","c"," ","u","r","i","=">>

\* 'packetfilter=fec'
SrcPacketfilter ==
  <<"p","a","c","k","e","t","f","i","l","t","e","r","=","f","e","c">>

\* '! tsdemux'
StageTsdemux ==
  <<"!"," ","t","s","d","e","m","u","x">>

\* '! h264parse'
StageH264parse ==
  <<"!"," ","h","2","6","4","p","a","r","s","e">>

\* '! video/x-h264'
StageCapsH264 ==
  <<"!"," ","v","i","d","e","o","/","x","-","h","2","6","4">>

\* '! avdec_h264'
StageAvdec ==
  <<"!"," ","a","v","d","e","c","_","h","2","6","4">>

\* '! autovideosink sync=false'
StageAutovideosink ==
  <<"!"," ","a","u","t","o","v","i","d","e","o","s","i","n","k"," ","s","y",
    "n","c","=","f","a","l","s","e">>

\* 'srt://:'
UriListen ==
  <<"s","r","t",":","/","/",":">>

\* 'srt://'
UriCall ==
  <<"s","r","t",":","/","/">>

\* ',0+0'
AllScreensTail ==
  <<",","0","+","0">>

\* 'NIX_PATH=nixpkgs=https://github.com/nh2/nixpkgs/archive/6dc03726f61868c0b8020e9ca98ac71972528d8f.tar.gz'
NixPath ==
  <<"N","I","X","_","P","A","T","H","=","n","i","x","p","k","g","s","=","h",
    "t","t","p","s",":","/","/","g","i","t","h","u","b",".","c","o","m","/",
    "n","h","2","/","n","i","x","p","k","g","s","/","a","r","c","h","i","v",
    "e","/","6","d","c","0","3","7","2","6","f","6","1","8","6","8","c","0",
    "b","8","0","2","0","e","9","c","a","9","8","a","c","7","1","9","7","2",
    "5","2","8","d","8","f",".","t","a","r",".","g","z">>

\* 'nix-shell'
NixShell ==
  <<"n","i","x","-","s","h","e","l","l">>

\* '-p gst_all_1.gstreamer'
NixGstreamer ==
  <<"-","p"," ","g","s","t","_","a","l","l","_","1",".","g","s","t","r","e",
    "a","m","e","r">>

\* '-p gst_all_1.gst-plugins-good'
NixPluginsGood ==
  <<"-","p"," ","g","s","t","_","a","l","l","_","1",".","g","s","t","-","p",
    "l","u","g","i","n","s","-","g","o","o","d">>

\* '-p gst_all_1.gst-plugins-base'
NixPluginsBase ==
  <<"-","p"," ","g","s","t","_","a","l","l","_","1",".","g","s","t","-","p",
    "l","u","g","i","n","s","-","b","a","s","e">>

\* '-p gst_all_1.gst-plugins-bad'
NixPluginsBad ==
  <<"-","p"," ","g","s","t","_","a","l","l","_","1",".","g","s","t","-","p",
    "l","u","g","i","n","s","-","b","a","d">>

\* '-p gst_all_1.gst-plugins-ugly'
NixPluginsUgly ==
  <<"-","p"," ","g","s","t","_","a","l","l","_","1",".","g","s","t","-","p",
    "l","u","g","i","n","s","-","u","g","l","y">>

\* '-p gst_all_1.gst-libav'
NixLibav ==
  <<"-","p"," ","g","s","t","_","a","l","l","_","1",".","g","s","t","-","l",
    "i","b","a","v">>

\* '--run '
NixRun ==
  <<"-","-","r","u","n"," ">>

\* '\nYour CLI flags:\n\n'
FlagsBanner ==
  <<"\n","Y","o","u","r"," ","C","L","I"," ","f","l","a","g","s",":","\n","\n">>

\* '\nYour gstreamer invocation:\n\n'
CommandBanner ==
  <<"\n","Y","o","u","r"," ","g","s","t","r","e","a","m","e","r"," ","i","n",
    "v","o","c","a","t","i","o","n",":","\n","\n">>

\* '--ignore-gooey'
OptIgnoreGooey ==
  <<"-","-","i","g","n","o","r","e","-","g","o","o","e","y">>

\* '--listen-port'
OptListenPort ==
  <<"-","-","l","i","s","t","e","n","-","p","o","r","t">>

\* '--call'
OptCall ==
  <<"-","-","c","a","l","l">>

\* '--view'
OptView ==
  <<"-","-","v","i","e","w">>

\* '--screenshare-screen-'
OptScreenshareScreen ==
  <<"-","-","s","c","r","e","e","n","s","h","a","r","e","-","s","c","r","e",
    "e","n","-">>

\* '--screenshare-all'
OptScreenshareAll ==
  <<"-","-","s","c","r","e","e","n","s","h","a","r","e","-","a","l","l">>

\* '--screenshare-rectangle'
OptScreenshareRectangle ==
  <<"-","-","s","c","r","e","e","n","s","h","a","r","e","-","r","e","c","t",
    "a","n","g","l","e">>

\* '--bitrate'
OptBitrate ==
  <<"-","-","b","i","t","r","a","t","e">>

\* '--fec'
OptFec ==
  <<"-","-","f","e","c">>

\* '--latency'
OptLatency ==
  <<"-","-","l","a","t","e","n","c","y">>

\* '--fps'
OptFps ==
  <<"-","-","f","p","s">>

\* '--passphrase'
OptPassphrase ==
  <<"-","-","p","a","s","s","p","h","r","a","s","e">>

\* '--print-command'
OptPrintCommand ==
  <<"-","-","p","r","i","n","t","-","c","o","m","m","a","n","d">>

(***************************************************************************)
(* str.join, str.split(':'), itertools.chain, shlex.quote.                 *)
(***************************************************************************)
\* sep.join(parts)
RECURSIVE Join(_, _)
Join(parts, sep) ==
  IF parts = <<>> THEN <<>>
  ELSE IF Len(parts) = 1 THEN parts[1]
  ELSE parts[1] \o sep \o Join(Tail(parts), sep)

\* s.split(c): the pieces of s between the occurrences of the character c.
RECURSIVE Split(_, _)
Split(s, c) ==
  IF \A n \in 1..Len(s) : s[n] # c THEN <<s>>
  ELSE LET n == CHOOSE m \in 1..Len(s) :
                  s[m] = c /\ \A k \in 1..(m - 1) : s[k] # c
       IN  <<SubSeq(s, 1, n - 1)>> \o Split(SubSeq(s, n + 1, Len(s)), c)

\* list(itertools.chain.from_iterable(list_of_lists))
RECURSIVE concat_lists(_)
concat_lists(list_of_lists) ==
  IF list_of_lists = <<>> THEN <<>>
  ELSE Head(list_of_lists) \o concat_lists(Tail(list_of_lists))

\* The characters shlex.quote leaves unquoted: [\w@%+=:,./-].
SafeChars ==
  { "a","b","c","d","e","f","g","h","i","j","k","l","m","n","o","p","q","r",
    "s","t","u","v","w","x","y","z","A","B","C","D","E","F","G","H","I","J",
    "K","L","M","N","O","P","Q","R","S","T","U","V","W","X","Y","Z","0","1",
    "2","3","4","5","6","7","8","9","_","@","%","+","=",":",",",".","/","-" }

\* s.replace("'", "'\"'\"'"), computed on the two halves of s.
RECURSIVE EscapeQuotes(_)
EscapeQuotes(s) ==
  IF s = <<>> THEN <<>>
  ELSE IF Len(s) = 1
  THEN (IF s[1] = "'" THEN <<"'", "\"", "'", "\"", "'">> ELSE s)
  ELSE LET half == Len(s) \div 2
       IN  EscapeQuotes(SubSeq(s, 1, half))
           \o EscapeQuotes(SubSeq(s, half + 1, Len(s)))

\* shlex.quote(s)
shlex_quote(s) ==
  IF s = <<>> THEN <<"'", "'">>
  ELSE IF \A n \in 1..Len(s) : s[n] \in SafeChars THEN s
  ELSE <<"'">> \o EscapeQuotes(s) \o <<"'">>

\* Python truth of an optional string: None and '' are false.
Truthy(s) == s # None /\ s # <<>>

(***************************************************************************)
(* The command line and the environment of one run.                        *)
(***************************************************************************)
\* '5000', '5000?passphrase=x' (an SRT URL parameter), ''
ListenPorts ==
  { <<"5","0","0","0">>,
    <<"5","0","0","0","?","p","a","s","s","p","h","r","a","s","e","=","x">>,
    <<>> }

\* 'h:5000', 'h' (no port), ''
CallTargets == { <<"h",":","5","0","0","0">>, <<"h">>, <<>> }

\* '1920x1080+0,0', '0x0+5,5', '1x2+3,4z', 'abc', ''
RectTexts ==
  { <<"1","9","2","0","x","1","0","8","0","+","0",",","0">>,
    <<"0","x","0","+","5",",","5">>,
    <<"1","x","2","+","3",",","4","z">>,
    <<"a","b","c">>,
    <<>> }

\* 'secret', ''
Passphrases == { <<"s","e","c","r","e","t">>, <<>> }

Bitrates == {DefaultBitrate, 500}

Latencies == {DefaultLatency, 200}

FpsValues == {DefaultFps}

\* The exit statuses of the gst-launch child.
ChildStatuses == {0, 1}

\* The address socket.gethostbyname returns: '203.0.113.5'
ResolvedIp == <<"2","0","3",".","0",".","1","1","3",".","5">>

\* sys.argv[0]
ScriptName == <<"n","i","c","e","s","h","a","r","e",".","p","y">>

\* The per-screen flags a command line may name: --screenshare-screen-i.
ScreenFlags == 0..(MaxDisplays - 1)

\* The number of capture-mode flags and of connection flags on a command line.
ModeCount(c) ==
  (IF c.view THEN 1 ELSE 0) + Cardinality(c.screens) + (IF c.all THEN 1 ELSE 0)
  + (IF c.rectangle # None THEN 1 ELSE 0)

ConnCount(c) ==
  (IF c.listen_port # None THEN 1 ELSE 0) + (IF c.call # None THEN 1 ELSE 0)

\* Command lines: any combination of the options, with at most two flags of
\* the capture-mode group.
CmdLines ==
  { c \in [ listen_port : {None} \cup ListenPorts,
            call : {None} \cup CallTargets,
            view : BOOLEAN,
            screens : SUBSET ScreenFlags,
            all : BOOLEAN,
            rectangle : {None} \cup RectTexts,
            bitrate : Bitrates,
            fec : BOOLEAN,
            latency : Latencies,
            fps : FpsValues,
            passphrase : {None} \cup Passphrases,
            print_command : BOOLEAN ] :
      ModeCount(c) <= 2 }

\* wx.Display(i).GetGeometry() of display i (0-based) as <<Width, Height, X, Y>>:
\* equal screens side by side.
Geometry(i) == <<1920, 1080, 1920 * i, 0>>

\* The windowing system: unavailable (headless host), or n displays.
DisplayEnvs ==
  { [available |-> FALSE, geometries |-> <<>>] }
  \cup { [available |-> TRUE, geometries |-> [i \in 1..n |-> Geometry(i - 1)]] :
           n \in 1..MaxDisplays }

\* sys.argv of a command line.
SysArgv(c) ==
  <<ScriptName>>
  \o (IF c.listen_port # None THEN <<OptListenPort, c.listen_port>> ELSE <<>>)
  \o (IF c.call # None THEN <<OptCall, c.call>> ELSE <<>>)
  \o (IF c.view THEN <<OptView>> ELSE <<>>)
  \o concat_lists([i \in 1..MaxDisplays |->
        IF (i - 1) \in c.screens THEN <<OptScreenshareScreen \o Str(i - 1)>>
        ELSE <<>>])
  \o (IF c.all THEN <<OptScreenshareAll>> ELSE <<>>)
  \o (IF c.rectangle # None THEN <<OptScreenshareRectangle, c.rectangle>> ELSE <<>>)
  \o (IF c.bitrate # DefaultBitrate THEN <<OptBitrate, Str(c.bitrate)>> ELSE <<>>)
  \o (IF c.fec THEN <<OptFec>> ELSE <<>>)
  \o (IF c.latency # DefaultLatency THEN <<OptLatency, Str(c.latency)>> ELSE <<>>)
  \o (IF c.fps # DefaultFps THEN <<OptFps, Str(c.fps)>> ELSE <<>>)
  \o (IF c.passphrase # None THEN <<OptPassphrase, c.passphrase>> ELSE <<>>)
  \o (IF c.print_command THEN <<OptPrintCommand>> ELSE <<>>)

(***************************************************************************)
(* get_all_screens_size and the argument parser.                           *)
(***************************************************************************)
\* f'{all_w}x{all_h},0+0' for the current mode of display 0.
AllScreensString(mode) ==
  Str(mode[1]) \o <<"x">> \o Str(mode[2]) \o AllScreensTail

\* parser.parse_args() exits with status 2: a flag of a screen that was not
\* enumerated is unrecognised, and each of the two groups is required and
\* mutually exclusive.
ParseArgsRejects(c, sizes) ==
  \/ \E i \in c.screens : i >= Len(sizes)
  \/ ConnCount(c) # 1
  \/ ModeCount(c) # 1

\* The namespace parser.parse_args() returns.
ParsedArgs(c, sizes, all_size) ==
  [ listen_port |-> c.listen_port,
    call |-> c.call,
    view |-> c.view,
    screenshare |->
      IF c.screens # {} THEN sizes[(CHOOSE i \in c.screens : TRUE) + 1]
      ELSE IF c.all THEN all_size
      ELSE None,
    screenshare_rectangle |-> c.rectangle,
    bitrate |-> c.bitrate,
    fec |-> c.fec,
    latency |-> c.latency,
    fps |-> c.fps,
    passphrase |-> c.passphrase,
    print_command |-> c.print_command ]

(***************************************************************************)
(* The pipeline builder.                                                   *)
(***************************************************************************)
\* Optional arguments that test the passphrase with "is not None".
SinkOptions_not_none(a) ==
  concat_lists(<<
    IF a.fec THEN <<SinkPacketfilter>> ELSE <<>>,
    IF a.passphrase # None THEN <<PassphraseKey \o a.passphrase>> ELSE <<>> >>)

\* The optional arguments of srtsink.
SinkOptions(a) ==
  concat_lists(<<
    IF a.fec THEN <<SinkPacketfilter>> ELSE <<>>,
    IF Truthy(a.passphrase) THEN <<PassphraseKey \o a.passphrase>> ELSE <<>> >>)

\* The optional arguments of srtsrc.
SrcOptions(a) ==
  concat_lists(<<
    IF a.fec THEN <<SrcPacketfilter>> ELSE <<>>,
    IF Truthy(a.passphrase) THEN <<PassphraseKey \o a.passphrase>> ELSE <<>> >>)

\* An end coordinate that is exclusive (one past the last pixel).
EndCoordinate_exclusive(start, size) == start + size

\* endx = startx + width - 1 and endy = starty + height - 1: the inclusive
\* end coordinate of a span of the given size.
EndCoordinate(start, size) == start + size - 1

\* gst_launch_args of the screenshare branch, for the parsed rectangle r.
ScreensharePipeline(r, a, u) ==
  LET width == r[1]
      height == r[2]
      startx == r[3]
      starty == r[4]
      endx == EndCoordinate(startx, width)
      endy == EndCoordinate(starty, height)
  IN  << GstLaunch,
         XimagesrcStartx \o Str(startx) \o XimagesrcEndx \o Str(endx)
           \o XimagesrcStarty \o Str(starty) \o XimagesrcEndy \o Str(endy)
           \o XimagesrcTail,
         StageQueue,
         StageVideoconvert,
         StageClockoverlay,
         X264encBitrate \o Str(a.bitrate) \o X264encTail,
         CapsFramerate \o Str(a.fps) \o CapsTail,
         StageMpegtsmux,
         StageQueue,
         SrtsinkUri \o u \o SrtsinkLatency \o Str(a.latency) \o <<" ">>
           \o Join(SinkOptions(a), <<" ">>) >>

\* gst_launch_args of the view branch.
ViewPipeline(a, u) ==
  << GstLaunch,
     SrtsrcUri \o u \o <<" ">> \o Join(SrcOptions(a), <<" ">>),
     StageQueue,
     StageTsdemux,
     StageH264parse,
     StageCapsH264,
     StageAvdec,
     StageAutovideosink >>

\* The nix-shell command line around the quoted gst-launch invocation.
ComposedCommand(launch_args) ==
  Join(<< NixPath, NixShell, NixGstreamer, NixPluginsGood, NixPluginsBase,
          NixPluginsBad, NixPluginsUgly, NixLibav,
          NixRun \o shlex_quote(Join(launch_args, <<" ">>)) >>, <<" ">>)

\* ' '.join(a for a in sys.argv if a not in ['--ignore-gooey', '--print-command'])
CliFlags(argv) ==
  Join(SelectSeq(argv, LAMBDA a : a \notin {OptIgnoreGooey, OptPrintCommand}),
       <<" ">>)

(***************************************************************************)
(* One run of the program: python3 niceshare.py <command line>.            *)
(***************************************************************************)
Init ==
  /\ pc = "boot"
  /\ cmdline \in CmdLines
  /\ display \in DisplayEnvs
  /\ screen_sizes = Unbound
  /\ all_screens_size = Unbound
  /\ args = Unbound
  /\ uri = Unbound
  /\ rect = Unbound
  /\ gst_launch_args = Unbound
  /\ command = Unbound
  /\ stdout = <<>>
  /\ children = <<>>
  /\ error = "none"
  /\ exit_status = -1
  /\ p_pc = "idle"
  /\ p_rect = None
  /\ p_text = None
  /\ p_result = None

\* The run ends with an uncaught exception or a SystemExit.
Die(exception, status) ==
  /\ pc' = "exited"
  /\ error' = exception
  /\ exit_status' = status

\* if __name__ == "__main__": without --gui on the command line, main().
Boot ==
  /\ pc = "boot"
  /\ pc' = "list_screen_sizes"
  /\ UNCHANGED <<cmdline, display, screen_sizes, all_screens_size, args, uri,
                 rect, gst_launch_args, command, stdout, children, error,
                 exit_status>>
  /\ UNCHANGED pvars

\* list_screen_sizes(), called while the parser is built.  Without a display
\* wx.App(False) ends the process.
ListScreenSizes ==
  /\ pc = "list_screen_sizes"
  /\ IF display.available
     THEN /\ screen_sizes' =
               [i \in 1..Len(display.geometries) |->
                  ScreenString(display.geometries[i])]
          /\ pc' = "get_all_screens_size"
          /\ UNCHANGED <<error, exit_status>>
     ELSE /\ Die("SystemExit: no display", 1)
          /\ UNCHANGED screen_sizes
  /\ UNCHANGED <<cmdline, display, all_screens_size, args, uri, rect,
                 gst_launch_args, command, stdout, children>>
  /\ UNCHANGED pvars

\* get_all_screens_size()
GetAllScreensSize ==
  /\ pc = "get_all_screens_size"
  /\ all_screens_size' = AllScreensString(display.geometries[1])
  /\ pc' = "parse_args"
  /\ UNCHANGED <<cmdline, display, screen_sizes, args, uri, rect,
                 gst_launch_args, command, stdout, children, error,
                 exit_status>>
  /\ UNCHANGED pvars

\* args = parser.parse_args()
ParseArgs ==
  /\ pc = "parse_args"
  /\ IF ParseArgsRejects(cmdline, screen_sizes)
     THEN /\ Die("SystemExit: argparse", 2)
          /\ UNCHANGED args
     ELSE /\ args' = ParsedArgs(cmdline, screen_sizes, all_screens_size)
          /\ pc' = "resolve_uri"
          /\ UNCHANGED <<error, exit_status>>
  /\ UNCHANGED <<cmdline, display, screen_sizes, all_screens_size, uri, rect,
                 gst_launch_args, command, stdout, children>>
  /\ UNCHANGED pvars

\* if args.listen_port: ... elif args.call: ...   (no else branch)
ResolveUri ==
  /\ pc = "resolve_uri"
  /\ IF Truthy(args.listen_port)
     THEN /\ uri' = UriListen \o args.listen_port
          /\ pc' = "translate_rectangle"
          /\ UNCHANGED <<error, exit_status>>
     ELSE IF Truthy(args.call)
     THEN LET parts == Split(args.call, ":")
          IN  IF Len(parts) # 2
              THEN /\ Die("ValueError", 1)
                   /\ UNCHANGED uri
              ELSE \/ /\ uri' = UriCall \o ResolvedIp \o <<":">> \o parts[2]
                      /\ pc' = "translate_rectangle"
                      /\ UNCHANGED <<error, exit_status>>
                   \/ /\ Die("socket.gaierror", 1)
                      /\ UNCHANGED uri
     ELSE /\ pc' = "translate_rectangle"
          /\ UNCHANGED <<uri, error, exit_status>>
  /\ UNCHANGED <<cmdline, display, screen_sizes, all_screens_size, args, rect,
                 gst_launch_args, command, stdout, children>>
  /\ UNCHANGED pvars

\* if args.screenshare_rectangle: args.screenshare = args.screenshare_rectangle
TranslateRectangle ==
  /\ pc = "translate_rectangle"
  /\ args' = IF Truthy(args.screenshare_rectangle)
             THEN [args EXCEPT !.screenshare = args.screenshare_rectangle]
             ELSE args
  /\ pc' = "build"
  /\ UNCHANGED <<cmdline, display, screen_sizes, all_screens_size, uri, rect,
                 gst_launch_args, command, stdout, children, error,
                 exit_status>>
  /\ UNCHANGED pvars

\* if args.screenshare is not None: the screenshare pipeline.  Unpacking a
\* failed parse raises TypeError; an unassigned uri raises UnboundLocalError.
BuildScreenshare ==
  /\ pc = "build"
  /\ args.screenshare # None
  /\ LET r == parse_screenshare_argument(args.screenshare)
     IN  IF r = None
         THEN /\ Die("TypeError", 1)
              /\ UNCHANGED <<rect, gst_launch_args>>
         ELSE IF uri = Unbound
         THEN /\ rect' = r
              /\ Die("UnboundLocalError", 1)
              /\ UNCHANGED gst_launch_args
         ELSE /\ rect' = r
              /\ gst_launch_args' = ScreensharePipeline(r, args, uri)
              /\ pc' = "compose"
              /\ UNCHANGED <<error, exit_status>>
  /\ UNCHANGED <<cmdline, display, screen_sizes, all_screens_size, args, uri,
                 command, stdout, children>>
  /\ UNCHANGED pvars

\* elif args.view is not None: the view pipeline.  --view is a store_true
\* flag, so args.view is True or False and never None.
BuildView ==
  /\ pc = "build"
  /\ args.screenshare = None
  /\ args.view \in BOOLEAN
  /\ IF uri = Unbound
     THEN /\ Die("UnboundLocalError", 1)
          /\ UNCHANGED gst_launch_args
     ELSE /\ gst_launch_args' = ViewPipeline(args, uri)
          /\ pc' = "compose"
          /\ UNCHANGED <<error, exit_status>>
  /\ UNCHANGED <<cmdline, display, screen_sizes, all_screens_size, args, uri,
                 rect, command, stdout, children>>
  /\ UNCHANGED pvars

\* quoted_in_nix_shell_command and command
ComposeCommand ==
  /\ pc = "compose"
  /\ command' = ComposedCommand(gst_launch_args)
  /\ pc' = "print_flags"
  /\ UNCHANGED <<cmdline, display, screen_sizes, all_screens_size, args, uri,
                 rect, gst_launch_args, stdout, children, error, exit_status>>
  /\ UNCHANGED pvars

\* The newline print() writes after its argument.
PrintEnd == <<"\n">>

\* print(f'\nYour CLI flags:\n\n{cli_flags}\n')
PrintFlags ==
  /\ pc = "print_flags"
  /\ stdout' = Append(stdout, FlagsBanner \o CliFlags(SysArgv(cmdline))
                                \o <<"\n">> \o PrintEnd)
  /\ pc' = "print_command"
  /\ UNCHANGED <<cmdline, display, screen_sizes, all_screens_size, args, uri,
                 rect, gst_launch_args, command, children, error, exit_status>>
  /\ UNCHANGED pvars

\* print(f'\nYour gstreamer invocation:\n\n{command}\n')
PrintCommand ==
  /\ pc = "print_command"
  /\ stdout' = Append(stdout, CommandBanner \o command \o <<"\n">> \o PrintEnd)
  /\ pc' = "run"
  /\ UNCHANGED <<cmdline, display, screen_sizes, all_screens_size, args, uri,
                 rect, gst_launch_args, command, children, error, exit_status>>
  /\ UNCHANGED pvars

\* A child that is started whether or not --print-command was given.
RunChild_unconditional ==
  /\ pc = "run"
  /\ \E status \in ChildStatuses :
       children' = Append(children, [command |-> command, returncode |-> status])
  /\ pc' = "return"
  /\ UNCHANGED <<cmdline, display, screen_sizes, all_screens_size, args, uri,
                 rect, gst_launch_args, command, stdout, error, exit_status>>
  /\ UNCHANGED pvars

\* if not args.print_command: subprocess.run(command, shell=True).  The
\* CompletedProcess that is returned is dropped.
RunChild ==
  /\ pc = "run"
  /\ ~args.print_command
  /\ \E status \in ChildStatuses :
       children' = Append(children, [command |-> command, returncode |-> status])
  /\ pc' = "return"
  /\ UNCHANGED <<cmdline, display, screen_sizes, all_screens_size, args, uri,
                 rect, gst_launch_args, command, stdout, error, exit_status>>
  /\ UNCHANGED pvars

\* main() returns and the interpreter exits with status 0.
Return ==
  /\ \/ pc = "return"
     \/ pc = "run" /\ args.print_command
  /\ pc' = "exited"
  /\ exit_status' = 0
  /\ UNCHANGED <<cmdline, display, screen_sizes, all_screens_size, args, uri,
                 rect, gst_launch_args, command, stdout, children, error>>
  /\ UNCHANGED pvars

Next ==
  \/ Boot
  \/ ListScreenSizes
  \/ GetAllScreensSize
  \/ ParseArgs
  \/ ResolveUri
  \/ TranslateRectangle
  \/ BuildScreenshare
  \/ BuildView
  \/ ComposeCommand
  \/ PrintFlags
  \/ PrintCommand
  \/ RunChild
  \/ Return

Spec == Init /\ [][Next]_vars

(***************************************************************************)
(* SpecParse: the parser as a pure function.  A text is either the         *)
(* formatted geometry of a rectangle or a text typed by the user (a        *)
(* formatted rectangle with one character inserted or deleted, or one of   *)
(* a few fixed texts), and is then parsed.                                 *)
(***************************************************************************)
Coords == 0..MaxCoord

Rects == Coords \X Coords \X Coords \X Coords

\* The rectangles whose texts are edited, and the characters inserted.
BaseRects == {<<1, 2, 3, 4>>, <<10, 20, 0, 0>>, <<1920, 1080, 0, 0>>}

EditChars == {"-", "z", " ", "7", "x", "+", ",", "."}

InsertAt(s, i, c) == SubSeq(s, 1, i) \o <<c>> \o SubSeq(s, i + 1, Len(s))

DeleteAt(s, i) == SubSeq(s, 1, i - 1) \o SubSeq(s, i + 1, Len(s))

FixedTexts ==
  { <<>>,
    <<"a", "b", "c">>,
    <<"1", "x", "2">>,
    <<"2", "0", "x", "1", "0", ",", "0", "+", "0">> }

ParseInit ==
  /\ p_pc = "start"
  /\ p_rect = None
  /\ p_text = None
  /\ p_result = None
  /\ pc = "idle"
  /\ cmdline = Unbound
  /\ display = Unbound
  /\ screen_sizes = Unbound
  /\ all_screens_size = Unbound
  /\ args = Unbound
  /\ uri = Unbound
  /\ rect = Unbound
  /\ gst_launch_args = Unbound
  /\ command = Unbound
  /\ stdout = <<>>
  /\ children = <<>>
  /\ error = "none"
  /\ exit_status = -1

FormatRect ==
  /\ p_pc = "start"
  /\ \E r \in Rects \cup BaseRects :
       /\ p_rect' = r
       /\ p_text' = ScreenString(r)
  /\ p_pc' = "text"
  /\ UNCHANGED <<p_result, mvars>>

TypeInserted ==
  /\ p_pc = "start"
  /\ \E r \in BaseRects, c \in EditChars :
       \E i \in 0..Len(ScreenString(r)) :
          p_text' = InsertAt(ScreenString(r), i, c)
  /\ p_pc' = "text"
  /\ UNCHANGED <<p_rect, p_result, mvars>>

TypeDeleted ==
  /\ p_pc = "start"
  /\ \E r \in BaseRects :
       \E i \in 1..Len(ScreenString(r)) :
          p_text' = DeleteAt(ScreenString(r), i)
  /\ p_pc' = "text"
  /\ UNCHANGED <<p_rect, p_result, mvars>>

TypeFixed ==
  /\ p_pc = "start"
  /\ \E t \in FixedTexts : p_text' = t
  /\ p_pc' = "text"
  /\ UNCHANGED <<p_rect, p_result, mvars>>

Parse ==
  /\ p_pc = "text"
  /\ p_result' = parse_screenshare_argument(p_text)
  /\ p_pc' = "parsed"
  /\ UNCHANGED <<p_rect, p_text, mvars>>

ParseNext ==
  \/ FormatRect
  \/ TypeInserted
  \/ TypeDeleted
  \/ TypeFixed
  \/ Parse

SpecParse == ParseInit /\ [][ParseNext]_vars

(***************************************************************************)
(* The form WIDTHxHEIGHT+X,Y, stated without the parser: an "x", a "+" and *)
(* a "," in this order, digits everywhere else, and at least one digit in  *)
(* each of the four fields.                                                *)
(***************************************************************************)
WellFormed(s) ==
  \E i, j, k \in 1..Len(s) :
    /\ 1 < i /\ i + 1 < j /\ j + 1 < k /\ k < Len(s)
    /\ s[i] = "x" /\ s[j] = "+" /\ s[k] = ","
    /\ \A n \in (1..Len(s)) \ {i, j, k} : IsDigit(s[n])

\* C1: every text that is not exactly of the form WIDTHxHEIGHT+X,Y (empty,
\* a separator missing, a negative or non-numeric field, characters after a
\* well-formed rectangle) is parsed to None, never to a rectangle.
C1_MalformedIsRejected ==
  (p_pc = "parsed" /\ ~WellFormed(p_text)) => p_result = None

\* C2: parsing the text "{w}x{h}+{x},{y}" of non-negative integers w, h, x, y
\* succeeds and returns exactly <<w, h, x, y>>, in this field order.
C2_RoundTrip ==
  (p_pc = "parsed" /\ p_rect # None) => p_result = p_rect

C2_Witness ==
  /\ p_pc = "parsed"
  /\ p_rect = <<10, 7, 3, 9>>
  /\ p_text = <<"1", "0", "x", "7", "+", "3", ",", "9">>
  /\ p_result = <<10, 7, 3, 9>>

(***************************************************************************)
(* Properties of one run (Spec).                                           *)
(***************************************************************************)
IsPrefix(p, s) == Len(p) <= Len(s) /\ SubSeq(s, 1, Len(p)) = p

IsSuffix(p, s) ==
  Len(p) <= Len(s) /\ SubSeq(s, Len(s) - Len(p) + 1, Len(s)) = p

\* sub occurs in s.
Contains(sub, s) ==
  \E n \in 0..(Len(s) - Len(sub)) : SubSeq(s, n + 1, n + Len(sub)) = sub

\* The run is at the pipeline builder, or past it.
AtBuilder == pc = "build"

Built == gst_launch_args # Unbound

BuiltScreenshare == Built /\ IsPrefix(XimagesrcStartx, gst_launch_args[2])

BuiltView == Built /\ IsPrefix(SrtsrcUri, gst_launch_args[2])

\* The capture mode the command line selects.
ScreenshareSelected(c) == c.screens # {} \/ c.all \/ c.rectangle # None

\* The run ended without an exception.
Completed == pc = "exited" /\ error = "none"

\* C3: when the command is executed, the exit status of the program mirrors
\* the exit status of the child: 0 iff the child exited with 0.
C3_ExitStatusMirrorsChild ==
  (pc = "exited" /\ children # <<>>)
    => ((exit_status = 0) <=> (children[1].returncode = 0))

\* C4: a display failure is fatal only for the screenshare modes: a run with
\* --view and a usable connection option on a host without a display reaches
\* the pipeline builder and prints its command.
C4_ViewRunsWithoutDisplay ==
  ( /\ pc = "exited"
    /\ ~display.available
    /\ cmdline.view /\ ModeCount(cmdline) = 1 /\ ConnCount(cmdline) = 1
    /\ \/ Truthy(cmdline.listen_port)
       \/ Truthy(cmdline.call) /\ Len(Split(cmdline.call, ":")) = 2
                               /\ error # "socket.gaierror" )
    => (Built /\ Len(stdout) = 2)

\* C5: every run that reaches the pipeline builder has exactly one connection
\* role and exactly one capture mode, its uri is defined, and the pipeline it
\* builds is the one of the selected capture mode, for every argument value
\* (empty strings included).
C5_BuilderGetsOneRoleOneMode ==
  /\ AtBuilder =>
       /\ ConnCount(cmdline) = 1
       /\ ModeCount(cmdline) = 1
       /\ uri # Unbound
  /\ Built =>
       /\ BuiltScreenshare <=> ScreenshareSelected(cmdline)
       /\ BuiltView <=> cmdline.view

\* C6: in every run that reaches the executor the CLI flags and the command
\* are printed first, in this order; with --print-command no child is ever
\* started, and without it the child is started exactly once, with the
\* printed command, after the printing.
C6_PrintThenRunOnce ==
  /\ Len(children) <= 1
  /\ children # <<>> =>
       /\ ~args.print_command
       /\ Len(stdout) = 2
       /\ children[1].command = command
  /\ (pc \in {"run", "return"} \/ Completed) =>
       /\ Len(stdout) = 2
       /\ IsPrefix(FlagsBanner, stdout[1])
       /\ IsPrefix(CommandBanner \o command, stdout[2])
  /\ Completed => Len(children) = (IF args.print_command THEN 0 ELSE 1)

C6_Witness ==
  /\ Completed
  /\ ~args.print_command
  /\ Len(children) = 1
  /\ Len(stdout) = 2

\* 'packetfilter=' and 'passphrase='
FecToken == <<"p","a","c","k","e","t","f","i","l","t","e","r","=">>

PassphraseToken == <<"p","a","s","s","p","h","r","a","s","e","=">>

\* The stage that carries the optional arguments: srtsink or srtsrc.
OptionStage == IF BuiltScreenshare THEN gst_launch_args[10] ELSE gst_launch_args[2]

\* C7 as stated: the stage contains a packetfilter parameter iff FEC is on,
\* and a passphrase parameter iff a passphrase is set (given on the command
\* line), which then carries exactly the given value.  Stated for the runs
\* that build the pipeline of the capture mode they selected.
C7_OptionsAsStated ==
  (Built /\ (BuiltView <=> cmdline.view)) =>
    /\ Contains(FecToken, OptionStage) <=> args.fec
    /\ Contains(PassphraseToken, OptionStage) <=> args.passphrase # None
    /\ args.passphrase # None =>
         Contains(PassphraseToken \o args.passphrase, OptionStage)

\* The part of the stage up to the optional arguments:
\* '! srtsink uri={uri} latency={latency} ' or 'srtsrc uri={uri} '.
FixedPart ==
  IF BuiltScreenshare
  THEN <<"!"," ","s","r","t","s","i","n","k"," ","u","r","i","=">> \o uri
       \o <<" ","l","a","t","e","n","c","y","=">> \o Str(args.latency) \o <<" ">>
  ELSE <<"s","r","t","s","r","c"," ","u","r","i","=">> \o uri \o <<" ">>

OptionalPart == SubSeq(OptionStage, Len(FixedPart) + 1, Len(OptionStage))

\* C7, amended: in the srtsink and the srtsrc stage, what follows the uri
\* (and latency) argument starts with a packetfilter parameter iff FEC is on,
\* and holds a passphrase parameter iff the passphrase is a non-empty string;
\* the parameter then ends the stage and carries exactly the given value.
\* With FEC off and the passphrase unset or empty, nothing follows.
C7_OptionalArguments ==
  Built =>
    /\ IsPrefix(FixedPart, OptionStage)
    /\ IsPrefix(FecToken, OptionalPart) <=> args.fec
    /\ Contains(PassphraseToken, OptionalPart) <=> Truthy(args.passphrase)
    /\ Truthy(args.passphrase) =>
         IsSuffix(<<" ">> \o PassphraseToken \o args.passphrase, OptionStage)
    /\ (~args.fec /\ ~Truthy(args.passphrase)) => OptionalPart = <<>>

C7_Witness ==
  /\ BuiltScreenshare
  /\ args.fec
  /\ args.passphrase = <<"s","e","c","r","e","t">>
  /\ IsSuffix(<<"a","l","w","a","y","s"," ","p","a","s","s","p","h","r","a","s",
                "e","=","s","e","c","r","e","t">>, gst_launch_args[10])

\* C8: whenever the screenshare pipeline is built, its rectangle has
\* width > 0 and height > 0, so that endx >= startx and endy >= starty.
C8_RectangleIsNotEmpty ==
  BuiltScreenshare =>
    /\ rect[1] > 0 /\ rect[2] > 0
    /\ EndCoordinate(rect[3], rect[1]) >= rect[3]
    /\ EndCoordinate(rect[4], rect[2]) >= rect[4]

\* C9: for a screenshare run with rectangle (w, h, x, y) and the listen role
\* on port p, the source stage encodes startx=x endx=x+w-1 starty=y
\* endy=y+h-1, the encoder stage the bitrate, and the sink stage uri=srt://:p
\* and the latency; 1920x1080+0,0 on port 5000 with the defaults gives
\* startx=0 endx=1919 starty=0 endy=1079, bitrate=2048 and
\* uri=srt://:5000 latency=1000.
C9_ScreenshareStages ==
  (BuiltScreenshare /\ Truthy(args.listen_port)) =>
    /\ Contains(
         <<"s","t","a","r","t","x","=">> \o Str(rect[3])
           \o <<" ","e","n","d","x","=">> \o Str(rect[3] + rect[1] - 1)
           \o <<" ","s","t","a","r","t","y","=">> \o Str(rect[4])
           \o <<" ","e","n","d","y","=">> \o Str(rect[4] + rect[2] - 1)
           \o <<" ">>,
         gst_launch_args[2])
    /\ Contains(<<"b","i","t","r","a","t","e","=">> \o Str(args.bitrate) \o <<" ">>,
                gst_launch_args[6])
    /\ Contains(
         <<"u","r","i","=","s","r","t",":","/","/",":">> \o args.listen_port
           \o <<" ","l","a","t","e","n","c","y","=">> \o Str(args.latency)
           \o <<" ">>,
         gst_launch_args[10])
    /\ ( /\ args.screenshare =
              <<"1","9","2","0","x","1","0","8","0","+","0",",","0">>
         /\ args.listen_port = <<"5","0","0","0">>
         /\ args.bitrate = 2048
         /\ args.latency = 1000 ) =>
           /\ Contains(
                <<"s","t","a","r","t","x","=","0"," ","e","n","d","x","=","1",
                  "9","1","9"," ","s","t","a","r","t","y","=","0"," ","e","n",
                  "d","y","=","1","0","7","9"," ">>,
                gst_launch_args[2])
           /\ Contains(<<"b","i","t","r","a","t","e","=","2","0","4","8"," ">>,
                       gst_launch_args[6])
           /\ Contains(
                <<"u","r","i","=","s","r","t",":","/","/",":","5","0","0","0",
                  " ","l","a","t","e","n","c","y","=","1","0","0","0"," ">>,
                gst_launch_args[10])

C9_Witness ==
  /\ BuiltScreenshare
  /\ cmdline.rectangle = <<"1","9","2","0","x","1","0","8","0","+","0",",","0">>
  /\ args.listen_port = <<"5","0","0","0">>
  /\ args.bitrate = 2048
  /\ args.latency = 1000
  /\ ~args.fec
  /\ args.passphrase = None
  /\ rect = <<1920, 1080, 0, 0>>

\* C10: every pre-enumerated geometry option yields a usable rectangle:
\* selecting a per-screen flag or the all-screens flag never ends in a parse
\* failure, and the screenshare pipeline is built from the geometry of that
\* display (of display 0's mode for the all-screens flag).
C10_EnumeratedGeometryParses ==
  /\ (cmdline.screens # {} \/ cmdline.all) => error # "TypeError"
  /\ (BuiltScreenshare /\ cmdline.screens # {}) =>
       \E i \in cmdline.screens : rect = display.geometries[i + 1]
  /\ (BuiltScreenshare /\ cmdline.all) =>
       /\ rect[1] = display.geometries[1][1]
       /\ rect[2] = display.geometries[1][2]

====
